---- MODULE Spec2Model ----
(***************************************************************************)
(* nornir_pools: the local thread pool engine (poolbase.py), its task      *)
(* handles (task.py) and the worker loop that serves the queue.            *)
(*                                                                         *)
(* Threads are modelled as processes with a program position:              *)
(*   - caller threads run add_task, wait_completion, shutdown and the      *)
(*     task handle's wait / wait_return;                                   *)
(*   - worker threads run the dequeue / execute / signal / task_done loop. *)
(* A step is one access to shared state (the queue, the event, the list of *)
(* threads); the statements between two accesses are local to the thread.  *)
(*                                                                         *)
(* Beside the engine: SerialTask (task.py), the class-wide process-exit    *)
(* hook (TryRegisterAtExit), the throttled progress report                 *)
(* (TryReportActiveTaskCount) and the construction of the facade           *)
(* (local_machine_pool.py). Each has its own specification; the engine's   *)
(* steps leave their state as it is.                                       *)
(***************************************************************************)
EXTENDS Integers, Sequences, FiniteSets, TLC

\* ------------------------------------------------------------------ bounds
\* Largest num_threads a pool is constructed with.
MaxThreads == 2
\* Number of add_task calls in a run of the general engine specification.
MaxTasks == 2
\* Number of add_task calls in a run of the task-handle specification.
MaxTasksT == 2
\* add_task calls beyond the queue's capacity in the backpressure runs.
ExtraTasksBP == 2
\* Worker threads started in a run; runs that would start more are cut off
\* at the spawn that exceeds it.
MaxSpawns == 3

\* Number of add_task calls in a run of the synchronous pool.
MaxSerialTasks == 2

\* Largest wait time a TryRegisterAtExit call asks for, and the number of
\* TryRegisterAtExit calls in a run.
MaxWait == 2
MaxRegCalls == 3

\* The job_report_interval a pool is constructed with, and the last instant
\* of the clock in a run of the progress report.
ReportInterval == 1
MaxTime == 4

\* The caller (producer) threads.
Callers == {"c1", "c2"}

\* ------------------------------------------------------- program constants
\* poolbase.py:161  queue.Queue(maxsize=self._max_threads * 32)
QueueFactor == 32

None == "None"
\* What a payload returns, and what a payload raises.
Value == "value"
Error == "error"

VARIABLES
    max_threads,      \* self._max_threads
    tasks,            \* self.tasks: the queued task ids, head first
    unfinished,       \* self.tasks.unfinished_tasks (put: +1, task_done: -1)
    deadthreadqueue,  \* self.deadthreadqueue: workers that announced their exit
    threads,          \* self._threads: the live-worker list
    shutdown_event,   \* self.shutdown_event
    registered,       \* the pool is in the registry of nornir_pools
    task,             \* task id -> the task object's fields and its history
    worker,           \* worker id -> the worker thread's position and entry
    caller,           \* caller thread -> position and locals of its call
    sdDone,           \* history: some shutdown() call has run to its end
    serial,           \* the SerialTask objects the synchronous pool returned
    AtExitRegisteredWaitTime,  \* LocalThreadPoolBase.AtExitRegisteredWaitTime
    AtExitLock,       \* LocalThreadPoolBase.AtExitLock: the thread holding it
    atexit_hooks,     \* the wait times of the atexit.register calls, in order
    requested,        \* history: the wait times of the TryRegisterAtExit calls
    now,              \* the clock that time.time() reads
    last_job_report_time,   \* self._last_job_report_time
    last_num_active_tasks,  \* self._last_num_active_tasks
    printed,          \* history: the reports printed, each with time and depth
    facades           \* the LocalMachinePool objects constructed

\* The class-wide state of the process-exit hook.
atexitVars == <<AtExitRegisteredWaitTime, AtExitLock, atexit_hooks, requested>>

\* The state outside the thread pool engine: the engine's steps leave it as
\* it is.
\* The state of the progress report.
reportVars == <<now, last_job_report_time, last_num_active_tasks, printed>>

auxVars == <<serial, atexitVars, reportVars, facades>>

vars == <<max_threads, tasks, unfinished, deadthreadqueue, threads,
          shutdown_event, registered, task, worker, caller, sdDone, auxVars>>

\* The state of the pool object itself (what shutdown() may touch).
poolVars == <<tasks, unfinished, deadthreadqueue, threads, shutdown_event,
              registered>>

\* ----------------------------------------------------------------- helpers
Min(a, b) == IF a < b THEN a ELSE b

TaskIds == DOMAIN task
WorkerIds == DOMAIN worker

\* Positions of a caller thread inside shutdown().
SdPcs == {"sd_join", "sd_reclaim", "sd_set", "sd_clear"}

\* Some shutdown() call has begun: it is under way, or the event is set (by
\* the call that ran to the end, which every call that returned early saw).
ShutdownBegun ==
    shutdown_event \/ \E c \in Callers : caller[c].pc \in SdPcs

\* Positions at which a caller thread is between two calls. The last call's
\* outcome stays visible in the position until the next call starts.
IdlePcs == {"idle", "InvalidState", "AssertionError", "sd_noop",
            "returned", "raised"}

IsIdle(c) == caller[c].pc \in IdlePcs

IdleCaller == [pc |-> "idle", needed |-> 0, created |-> 0, op |-> None,
               arg |-> 0, got |-> None, fullAt |-> -1]

\* A caller between calls, its last call having ended with `outcome`.
Ended(outcome) == [IdleCaller EXCEPT !.pc = outcome]

\* A freshly constructed task: Task.__init__ and TaskWithEvent.__init__.
\* The history fields: dequeues counts the times a worker took the task from
\* the queue, runs the executions of its payload, and observed is the outcome
\* the first wait_return() call on the task gave.
NewTask == [completed |-> FALSE, returned_value |-> None, exception |-> None,
            returncode |-> 0, dequeues |-> 0, runs |-> 0,
            observed |-> [pc |-> None, got |-> None]]

\* ------------------------------------------------------------ queue.Queue
\* Faulty variant of QueueMaxSize: a queue built without a maxsize.
QueueMaxSizeUnbounded(n) == 0

\* The capacity the constructor gives the task queue.
QueueMaxSize(n) == n * QueueFactor

\* queue.Queue.full(): a maxsize of 0 means unbounded.
QueueFull(q, n) == QueueMaxSize(n) > 0 /\ Len(q) >= QueueMaxSize(n)

\* queue.Queue.get: the entry handed out, and the queue left behind.
QueueFront(q) == Head(q)

QueueRest(q) == Tail(q)

\* -------------------------------------------------- remove_finished_threads
\* The index the inner loop of remove_finished_threads deletes for thread t:
\* the highest i in len-1 .. 1 (0-based) with _threads[i] == t, or 0 if the
\* loop ends without a match. 1-based here: indices Len(ts) down to 2.
Scanned(ts) == 2 .. Len(ts)

MatchIndex(ts, t) ==
    LET hits == {i \in Scanned(ts) : ts[i] = t}
    IN  IF hits = {} THEN 0 ELSE CHOOSE i \in hits : \A j \in hits : j <= i

DeleteAt(ts, i) ==
    [k \in 1 .. (Len(ts) - 1) |-> IF k < i THEN ts[k] ELSE ts[k + 1]]

\* Faulty variant of RemoveThread: the last entry of the list is dropped,
\* whichever thread announced itself.
RemoveLastThread(ts, t) ==
    IF Len(ts) < 2 THEN ts ELSE SubSeq(ts, 1, Len(ts) - 1)


RemoveThread(ts, t) ==
    IF MatchIndex(ts, t) = 0 THEN ts ELSE DeleteAt(ts, MatchIndex(ts, t))

\* The _threads list after draining the dead-thread queue dq. Workers put
\* themselves on the queue, never None, so the drain ends on queue.Empty.
RECURSIVE RemoveFinished(_, _)
RemoveFinished(ts, dq) ==
    IF dq = <<>> THEN ts
    ELSE RemoveFinished(RemoveThread(ts, Head(dq)), Tail(dq))

\* remove_finished_threads as one access to the pool.
Reclaim ==
    /\ threads' = RemoveFinished(threads, deadthreadqueue)
    /\ deadthreadqueue' = <<>>

\* Tasks taken from the queue so far.
NumDequeued == Len(task) - Len(tasks)

\* add_task calls made so far that were let past the shutdown check.
Calls == Len(task) + Cardinality({c \in Callers : caller[c].pc = "put"})

\* --------------------------------------------------------------- add_task
\* The pool refuses work once the shutdown flag is set.
Refused == shutdown_event

\* add_task, up to the put: the shutdown check.
AddTaskBegin(c) ==
    /\ IsIdle(c)
    /\ caller' = [caller EXCEPT ![c] =
          IF Refused
          THEN Ended("InvalidState")
          ELSE [IdleCaller EXCEPT !.pc = "put",
                   !.fullAt = IF QueueFull(tasks, max_threads)
                              THEN NumDequeued ELSE -1]]
    /\ UNCHANGED <<max_threads, tasks, unfinished, deadthreadqueue, threads,
                   shutdown_event, registered, task, worker, sdDone>>
    /\ UNCHANGED auxVars

\* add_task: self.tasks.put(entry), which blocks while the queue is full.
AddTaskPut(c) ==
    /\ caller[c].pc = "put"
    /\ ~QueueFull(tasks, max_threads)
    /\ tasks' = Append(tasks, Len(task) + 1)
    /\ unfinished' = unfinished + 1
    /\ task' = Append(task, NewTask)
    /\ caller' = [caller EXCEPT ![c].pc = "scale"]
    /\ UNCHANGED <<max_threads, deadthreadqueue, threads, shutdown_event,
                   registered, worker, sdDone>>
    /\ UNCHANGED auxVars

\* ---------------------------------------------------- add_threads_if_needed
\* Faulty variant of ThreadsNeeded: the queue depth is left out.
ThreadsNeededToMax(n, q) == max_threads - n


\* num_threads_needed, from the live count n and the queue depth q.
ThreadsNeeded(n, q) == Min(max_threads, q + 1) - n

\* add_threads_if_needed up to the loop: the assertion, the reclamation pass,
\* the saturation test and num_threads_needed.
AddThreadsBegin(c) ==
    /\ caller[c].pc = "scale"
    /\ IF shutdown_event
       THEN /\ caller' = [caller EXCEPT ![c] = Ended("AssertionError")]
            /\ UNCHANGED <<threads, deadthreadqueue>>
       ELSE /\ Reclaim
            /\ LET n == Len(RemoveFinished(threads, deadthreadqueue))
                   needed == ThreadsNeeded(n, Len(tasks))
               IN  caller' = [caller EXCEPT ![c] =
                      IF n = max_threads \/ needed <= 0
                      THEN IdleCaller
                      ELSE [IdleCaller EXCEPT !.pc = "spawn",
                                              !.needed = needed]]
    /\ UNCHANGED <<max_threads, tasks, unfinished, shutdown_event, registered,
                   task, worker, sdDone>>
    /\ UNCHANGED auxVars

\* A worker thread as add_worker_thread returns it: started, polling.
NewWorker == [pc |-> "poll", entry |-> 0]

\* One iteration of the loop of add_threads_if_needed.
AddThreadsSpawn(c) ==
    /\ caller[c].pc = "spawn"
    /\ IF tasks # <<>>
       THEN /\ worker' = Append(worker, NewWorker)
            /\ threads' = Append(threads, Len(worker) + 1)
            /\ caller' = [caller EXCEPT ![c] =
                  IF caller[c].created + 1 < caller[c].needed
                  THEN [caller[c] EXCEPT !.created = @ + 1]
                  ELSE IdleCaller]
       ELSE /\ caller' = [caller EXCEPT ![c] = IdleCaller]
            /\ UNCHANGED <<worker, threads>>
    /\ UNCHANGED <<max_threads, tasks, unfinished, deadthreadqueue,
                   shutdown_event, registered, task, sdDone>>
    /\ UNCHANGED auxVars

\* ---------------------------------------------------------- wait_completion
\* Faulty variant of JoinReady: waiting for the queue to be empty only.
JoinReadyWhenEmpty == tasks = <<>>

\* self.tasks.join() returns when every put has had its task_done.
JoinReady == unfinished = 0

\* wait_completion: self.tasks.join()
WaitCompletionJoin(c) ==
    /\ IsIdle(c)
    /\ JoinReady
    /\ caller' = [caller EXCEPT ![c] = [IdleCaller EXCEPT !.pc = "wc_reclaim"]]
    /\ UNCHANGED <<max_threads, tasks, unfinished, deadthreadqueue, threads,
                   shutdown_event, registered, task, worker, sdDone>>
    /\ UNCHANGED auxVars

\* wait_completion: self.remove_finished_threads()
WaitCompletionReclaim(c) ==
    /\ caller[c].pc = "wc_reclaim"
    /\ Reclaim
    /\ caller' = [caller EXCEPT ![c] = IdleCaller]
    /\ UNCHANGED <<max_threads, tasks, unfinished, shutdown_event, registered,
                   task, worker, sdDone>>
    /\ UNCHANGED auxVars

\* ----------------------------------------------------------------- shutdown
\* Faulty variant of ShutdownReturnsEarly: the test of the event left out.
ShutdownReturnsEarlyNever == FALSE

\* shutdown returns at once when the event is set.
ShutdownReturnsEarly == shutdown_event

\* shutdown: the test of the event. (A call that returns early notes in got
\* whether an earlier call had already run to its end.)
ShutdownCheck(c) ==
    /\ IsIdle(c)
    /\ caller' = [caller EXCEPT ![c] =
          IF ShutdownReturnsEarly
          THEN [Ended("sd_noop") EXCEPT
                   !.got = IF sdDone THEN "after_shutdown" ELSE None]
          ELSE [IdleCaller EXCEPT !.pc = "sd_join"]]
    /\ UNCHANGED <<max_threads, tasks, unfinished, deadthreadqueue, threads,
                   shutdown_event, registered, task, worker, sdDone>>
    /\ UNCHANGED auxVars

\* shutdown: wait_completion's self.tasks.join()
ShutdownJoin(c) ==
    /\ caller[c].pc = "sd_join"
    /\ JoinReady
    /\ caller' = [caller EXCEPT ![c].pc = "sd_reclaim"]
    /\ UNCHANGED <<max_threads, tasks, unfinished, deadthreadqueue, threads,
                   shutdown_event, registered, task, worker, sdDone>>
    /\ UNCHANGED auxVars

\* shutdown: wait_completion's self.remove_finished_threads()
ShutdownReclaim(c) ==
    /\ caller[c].pc = "sd_reclaim"
    /\ Reclaim
    /\ caller' = [caller EXCEPT ![c].pc = "sd_set"]
    /\ UNCHANGED <<max_threads, tasks, unfinished, shutdown_event, registered,
                   task, worker, sdDone>>
    /\ UNCHANGED auxVars

\* shutdown: self.shutdown_event.set() and nornir_pools._remove_pool(self)
ShutdownSet(c) ==
    /\ caller[c].pc = "sd_set"
    /\ shutdown_event' = TRUE
    /\ registered' = FALSE
    /\ caller' = [caller EXCEPT ![c].pc = "sd_clear"]
    /\ UNCHANGED <<max_threads, tasks, unfinished, deadthreadqueue, threads,
                   task, worker, sdDone>>
    /\ UNCHANGED auxVars

\* shutdown: self._threads.clear()
ShutdownClear(c) ==
    /\ caller[c].pc = "sd_clear"
    /\ threads' = <<>>
    /\ caller' = [caller EXCEPT ![c] = IdleCaller]
    /\ sdDone' = TRUE
    /\ UNCHANGED <<max_threads, tasks, unfinished, deadthreadqueue,
                   shutdown_event, registered, task, worker>>
    /\ UNCHANGED auxVars

\* ------------------------------------------------------------- worker loop
\* Faulty variant of AfterPayload: a payload that raised is run again.
RetryFailed(ok) == IF ok THEN "signal" ELSE "run"

\* Faulty variant of AfterPayload: a payload that raised ends its worker.
DieOnFailure(ok) == IF ok THEN "signal" ELSE "dead"


\* Where the worker goes after the payload: whether it returned or raised,
\* the outcome is kept on the task and the task is signalled, once.
AfterPayload(ok) == "signal"

\* The worker takes the next entry: self.tasks.get(True, queue_wait_time).
WorkerGet(w) ==
    /\ worker[w].pc = "poll"
    /\ tasks # <<>>
    /\ LET t == QueueFront(tasks)
       IN  /\ worker' = [worker EXCEPT ![w] = [pc |-> "run", entry |-> t]]
           /\ task' = [task EXCEPT ![t].dequeues = @ + 1]
    /\ tasks' = QueueRest(tasks)
    /\ UNCHANGED <<max_threads, unfinished, deadthreadqueue, threads,
                   shutdown_event, registered, caller, sdDone>>
    /\ UNCHANGED auxVars

\* The worker executes the payload and keeps its return value or the failure
\* it raised on the task.
\* oks: whether the payloads of the run may return (TRUE), raise (FALSE).
WorkerRun(w, oks) ==
    /\ worker[w].pc = "run"
    /\ \E ok \in oks :
          /\ task' = [task EXCEPT ![worker[w].entry] =
                [@ EXCEPT !.returned_value = IF ok THEN Value ELSE @,
                          !.exception = IF ok THEN @ ELSE Error,
                          !.runs = @ + 1]]
          /\ worker' = [worker EXCEPT ![w].pc = AfterPayload(ok)]
    /\ UNCHANGED <<max_threads, tasks, unfinished, deadthreadqueue, threads,
                   shutdown_event, registered, caller, sdDone>>
    /\ UNCHANGED auxVars

\* The worker marks the task's completion signal: entry.completed.set()
WorkerSignal(w) ==
    /\ worker[w].pc = "signal"
    /\ task' = [task EXCEPT ![worker[w].entry].completed = TRUE]
    /\ worker' = [worker EXCEPT ![w].pc = "ack"]
    /\ UNCHANGED <<max_threads, tasks, unfinished, deadthreadqueue, threads,
                   shutdown_event, registered, caller, sdDone>>
    /\ UNCHANGED auxVars

\* The worker marks the queue slot as processed: self.tasks.task_done()
WorkerAck(w) ==
    /\ worker[w].pc = "ack"
    /\ unfinished' = unfinished - 1
    /\ worker' = [worker EXCEPT ![w] = NewWorker]
    /\ UNCHANGED <<max_threads, tasks, deadthreadqueue, threads,
                   shutdown_event, registered, task, caller, sdDone>>
    /\ UNCHANGED auxVars

\* Faulty variant of WorkerExit: the worker exits on a timeout whether or not
\* the shutdown flag is set.
WorkerExitUnasked(w) ==
    /\ worker[w].pc = "poll"
    /\ tasks = <<>>
    /\ deadthreadqueue' = Append(deadthreadqueue, w)
    /\ worker' = [worker EXCEPT ![w].pc = "dead"]
    /\ UNCHANGED <<max_threads, tasks, unfinished, threads, shutdown_event,
                   registered, task, caller, sdDone>>
    /\ UNCHANGED auxVars


\* The dequeue attempt times out on an empty queue with the shutdown flag
\* set: the worker announces itself on the dead-thread queue and exits. (With
\* the flag unset the worker polls again, which changes nothing.)
WorkerExit(w) ==
    /\ worker[w].pc = "poll"
    /\ tasks = <<>>
    /\ shutdown_event
    /\ deadthreadqueue' = Append(deadthreadqueue, w)
    /\ worker' = [worker EXCEPT ![w].pc = "dead"]
    /\ UNCHANGED <<max_threads, tasks, unfinished, threads, shutdown_event,
                   registered, task, caller, sdDone>>
    /\ UNCHANGED auxVars

\* ------------------------------------------------------------ task handles
\* Faulty variant of IsCompleted: a failed task never polls as completed.
IsCompletedUnlessFailed(t) == task[t].completed /\ task[t].exception = None

\* TaskWithEvent.iscompleted: the completion signal, polled.
IsCompleted(t) == task[t].completed

\* Faulty variant of EventWait: the waiter is let through at once.
EventWaitNoBlock(t) == TRUE

\* TaskWithEvent.wait: self.completed.wait() lets the waiter through once the
\* signal is set.
EventWait(t) == task[t].completed

\* How a wait() or wait_return() call on task t ends, the signal being set:
\* the recorded failure is raised; otherwise wait_return yields the result.
WaitOutcome(op, t) ==
    IF task[t].exception # None
    THEN [pc |-> "raised", got |-> task[t].exception]
    ELSE [pc |-> "returned",
          got |-> IF op = "wait_return" THEN task[t].returned_value ELSE None]

\* A caller's wait() or wait_return() on task t returns or raises.
TaskWait(c, op, t) ==
    /\ IsIdle(c)
    /\ EventWait(t)
    /\ caller' = [caller EXCEPT ![c] =
          [IdleCaller EXCEPT !.pc = WaitOutcome(op, t).pc, !.op = op,
                             !.arg = t, !.got = WaitOutcome(op, t).got]]
    /\ task' = [task EXCEPT ![t].observed =
          IF op = "wait_return" /\ @.pc = None THEN WaitOutcome(op, t) ELSE @]
    /\ UNCHANGED <<max_threads, tasks, unfinished, deadthreadqueue, threads,
                   shutdown_event, registered, worker, sdDone>>
    /\ UNCHANGED auxVars

\* -------------------------------------------------------------- SerialTask
\* The engine's variables but the callers' positions.
engineVars == <<max_threads, tasks, unfinished, deadthreadqueue, threads,
                shutdown_event, registered, task, worker, sdDone>>

SerialIds == DOMAIN serial

\* SerialTask.__init__(name, retval): the object keeps retval and a
\* returncode of 0; it has no field for a failure. The history field payload
\* tells how the payload ended.
SerialTask(retval, how) == [retval |-> retval, returncode |-> 0, payload |-> how]

\* The synchronous pool's add_task: the payload is executed at submission and
\* what it gave, its result or its failure, is wrapped in the SerialTask that
\* is returned.
SerialAddTask(c, ok) ==
    /\ IsIdle(c)
    /\ serial' = Append(serial, IF ok THEN SerialTask(Value, "returned")
                                      ELSE SerialTask(Error, "raised"))
    /\ caller' = [caller EXCEPT ![c] =
          [IdleCaller EXCEPT !.pc = "returned", !.op = "serial.add_task",
                             !.arg = Len(serial) + 1]]
    /\ UNCHANGED <<engineVars, atexitVars, reportVars, facades>>

\* SerialTask.iscompleted
SerialIsCompleted(s) == TRUE

\* How SerialTask.wait and SerialTask.wait_return end: wait returns, and
\* wait_return returns self._retval; neither raises.
SerialWaitOutcome(op, s) ==
    [pc |-> "returned",
     got |-> IF op = "serial.wait_return" THEN serial[s].retval ELSE None]

\* A caller's wait() or wait_return() on SerialTask s.
SerialWait(c, op, s) ==
    /\ IsIdle(c)
    /\ caller' = [caller EXCEPT ![c] =
          [IdleCaller EXCEPT !.pc = SerialWaitOutcome(op, s).pc, !.op = op,
                             !.arg = s, !.got = SerialWaitOutcome(op, s).got]]
    /\ UNCHANGED <<engineVars, atexitVars, reportVars, facades>>
    /\ UNCHANGED serial

\* ------------------------------------------------------- TryRegisterAtExit
\* The wait times asked for (WorkerCheckInterval * 1.25, in units).
WaitTimes == 0 .. MaxWait

\* Positions of a thread inside TryRegisterAtExit, and those at which it
\* holds the lock.
AtExitPcs == {"ae_acquire", "ae_recheck", "ae_register", "ae_assign",
              "ae_release"}

AtExitLockedPcs == AtExitPcs \ {"ae_acquire"}

\* A thread between calls, its last call a TryRegisterAtExit(wait_time).
AtExitReturned(wait_time) ==
    [IdleCaller EXCEPT !.pc = "returned", !.op = "TryRegisterAtExit",
                       !.arg = wait_time]

\* Faulty variant of AlreadyRegistered: the test under the lock left out.
NeverRegistered(wait_time) == FALSE

\* The test under the lock: if cls.AtExitRegisteredWaitTime >= wait_time
AlreadyRegistered(wait_time) == AtExitRegisteredWaitTime >= wait_time

\* TryRegisterAtExit: the test made before the lock is taken.
AtExitCheck(c, wait_time) ==
    /\ IsIdle(c)
    /\ requested' = Append(requested, wait_time)
    /\ caller' = [caller EXCEPT ![c] =
          IF AtExitRegisteredWaitTime >= wait_time
          THEN AtExitReturned(wait_time)
          ELSE [IdleCaller EXCEPT !.pc = "ae_acquire", !.arg = wait_time]]
    /\ UNCHANGED <<AtExitRegisteredWaitTime, AtExitLock, atexit_hooks>>
    /\ UNCHANGED <<engineVars, serial, reportVars, facades>>

\* TryRegisterAtExit: cls.AtExitLock.acquire(), which blocks while another
\* thread holds the lock.
AtExitAcquire(c) ==
    /\ caller[c].pc = "ae_acquire"
    /\ AtExitLock = None
    /\ AtExitLock' = c
    /\ caller' = [caller EXCEPT ![c].pc = "ae_recheck"]
    /\ UNCHANGED <<AtExitRegisteredWaitTime, atexit_hooks, requested>>
    /\ UNCHANGED <<engineVars, serial, reportVars, facades>>

\* TryRegisterAtExit: the test made again under the lock; the return goes
\* through the finally clause.
AtExitRecheck(c) ==
    /\ caller[c].pc = "ae_recheck"
    /\ caller' = [caller EXCEPT ![c].pc =
          IF AlreadyRegistered(caller[c].arg)
          THEN "ae_release" ELSE "ae_register"]
    /\ UNCHANGED atexitVars
    /\ UNCHANGED <<engineVars, serial, reportVars, facades>>

\* TryRegisterAtExit: atexit.register(time.sleep, wait_time)
AtExitRegister(c) ==
    /\ caller[c].pc = "ae_register"
    /\ atexit_hooks' = Append(atexit_hooks, caller[c].arg)
    /\ caller' = [caller EXCEPT ![c].pc = "ae_assign"]
    /\ UNCHANGED <<AtExitRegisteredWaitTime, AtExitLock, requested>>
    /\ UNCHANGED <<engineVars, serial, reportVars, facades>>

\* TryRegisterAtExit: cls.AtExitRegisteredWaitTime = wait_time
AtExitAssign(c) ==
    /\ caller[c].pc = "ae_assign"
    /\ AtExitRegisteredWaitTime' = caller[c].arg
    /\ caller' = [caller EXCEPT ![c].pc = "ae_release"]
    /\ UNCHANGED <<AtExitLock, atexit_hooks, requested>>
    /\ UNCHANGED <<engineVars, serial, reportVars, facades>>

\* TryRegisterAtExit: the finally clause, cls.AtExitLock.release()
AtExitRelease(c) ==
    /\ caller[c].pc = "ae_release"
    /\ AtExitLock' = None
    /\ caller' = [caller EXCEPT ![c] = AtExitReturned(caller[c].arg)]
    /\ UNCHANGED <<AtExitRegisteredWaitTime, atexit_hooks, requested>>
    /\ UNCHANGED <<engineVars, serial, reportVars, facades>>

\* ------------------------------------------------ TryReportActiveTaskCount
\* num_active_tasks: self.tasks.qsize()
NumActiveTasks == Len(tasks)

\* time.time() moves on.
Tick ==
    /\ now < MaxTime
    /\ now' = now + 1
    /\ UNCHANGED <<last_job_report_time, last_num_active_tasks, printed>>
    /\ UNCHANGED <<engineVars, caller, serial, atexitVars, facades>>

\* TryReportActiveTaskCount returns without reporting: both the queue depth
\* and the depth reported last are under 2.
ReportSuppressed == NumActiveTasks < 2 /\ last_num_active_tasks < 2

\* The report is due: time_since_last_report > job_report_interval.
ReportDue(t) == t - last_job_report_time > ReportInterval

\* TryReportActiveTaskCount up to the test of the interval; a call that goes
\* on keeps the time it read in its local `now`.
ReportTest(c) ==
    /\ IsIdle(c)
    /\ caller' = [caller EXCEPT ![c] =
          IF ReportSuppressed \/ ~ReportDue(now)
          THEN [IdleCaller EXCEPT !.pc = "returned",
                                  !.op = "TryReportActiveTaskCount"]
          ELSE [IdleCaller EXCEPT !.pc = "rp_print", !.arg = now]]
    /\ UNCHANGED reportVars
    /\ UNCHANGED <<engineVars, serial, atexitVars, facades>>

\* TryReportActiveTaskCount: the two assignments and PrintActiveTaskCount.
ReportPrint(c) ==
    /\ caller[c].pc = "rp_print"
    /\ last_job_report_time' = caller[c].arg
    /\ last_num_active_tasks' = NumActiveTasks
    /\ printed' = Append(printed, [time |-> caller[c].arg,
                                   depth |-> NumActiveTasks])
    /\ caller' = [caller EXCEPT ![c] =
          [IdleCaller EXCEPT !.pc = "returned",
                             !.op = "TryReportActiveTaskCount",
                             !.got = "printed"]]
    /\ UNCHANGED now
    /\ UNCHANGED <<engineVars, serial, atexitVars, facades>>

\* --------------------------------------------------------- LocalMachinePool
\* The methods PoolBase declares abstract, and the names the class body of
\* LocalMachinePool defines.
PoolBaseAbstract ==
    {"num_active_tasks", "shutdown", "wait_completion", "add_task",
     "add_process"}

LocalMachinePoolDefines ==
    {"_multithreading_pool", "_process_pool", "get_active_nodes", "__init__",
     "add_task", "add_process", "wait_completion", "shutdown"}

\* The abstract methods LocalMachinePool inherits without overriding them; a
\* class derived from ABC can be instantiated only when there are none.
StillAbstract == PoolBaseAbstract \ LocalMachinePoolDefines

\* LocalMachinePool.__init__: the facade starts without underlying pools.
NewFacade(is_global) ==
    [is_global |-> is_global, mtpool |-> None, ppool |-> None]

\* A thread evaluates LocalMachinePool(num_threads, is_global): the class is
\* instantiated and __init__ runs, or the instantiation raises TypeError.
FacadeNew(c, is_global) ==
    /\ IsIdle(c)
    /\ IF StillAbstract = {}
       THEN /\ facades' = Append(facades, NewFacade(is_global))
            /\ caller' = [caller EXCEPT ![c] =
                  [IdleCaller EXCEPT !.pc = "returned",
                                     !.op = "LocalMachinePool",
                                     !.arg = Len(facades) + 1]]
       ELSE /\ caller' = [caller EXCEPT ![c] =
                  [IdleCaller EXCEPT !.pc = "raised",
                                     !.op = "LocalMachinePool",
                                     !.got = "TypeError"]]
            /\ UNCHANGED facades
    /\ UNCHANGED <<engineVars, serial, atexitVars, reportVars>>

\* ----------------------------------------------------------- specifications
\* The state outside the engine at the start of a run.
InitAux ==
    /\ serial = <<>>
    /\ AtExitRegisteredWaitTime = 0
    /\ AtExitLock = None
    /\ atexit_hooks = <<>>
    /\ requested = <<>>
    /\ now = 0
    /\ last_job_report_time = 0
    /\ last_num_active_tasks = 0
    /\ printed = <<>>
    /\ facades = <<>>

\* LocalThreadPoolBase.__init__ with num_threads = n.
InitPool(n) ==
    /\ max_threads = n
    /\ tasks = <<>>
    /\ unfinished = 0
    /\ deadthreadqueue = <<>>
    /\ threads = <<>>
    /\ shutdown_event = FALSE
    /\ registered = TRUE
    /\ task = <<>>
    /\ worker = <<>>
    /\ caller = [c \in Callers |-> IdleCaller]
    /\ sdDone = FALSE
    /\ InitAux

Init == \E n \in 1 .. MaxThreads : InitPool(n)

\* The bound on the worker threads started in a run.
SpawnAllowed == Len(worker) < MaxSpawns

\* The pool engine under concurrent callers: add_task, wait_completion and
\* shutdown from every caller thread, and the workers.
Next ==
    \/ \E c \in Callers :
          \/ Calls < MaxTasks /\ AddTaskBegin(c)
          \/ AddTaskPut(c)
          \/ AddThreadsBegin(c)
          \/ SpawnAllowed /\ AddThreadsSpawn(c)
          \/ WaitCompletionJoin(c)
          \/ WaitCompletionReclaim(c)
          \/ ShutdownCheck(c)
          \/ ShutdownJoin(c)
          \/ ShutdownReclaim(c)
          \/ ShutdownSet(c)
          \/ ShutdownClear(c)
    \/ \E w \in WorkerIds :
          \/ WorkerGet(w)
          \/ WorkerRun(w, BOOLEAN)
          \/ WorkerSignal(w)
          \/ WorkerAck(w)
          \/ WorkerExit(w)

Spec == Init /\ [][Next]_vars

\* The submitting thread of the task-handle and backpressure runs.
Producers == {"c1"}

\* Task handles: a producer submits tasks, and every caller thread waits on
\* them with wait() and wait_return() while the workers execute them.
NextTask ==
    \/ \E c \in Producers :
          \/ Calls < MaxTasksT /\ AddTaskBegin(c)
          \/ AddTaskPut(c)
          \/ AddThreadsBegin(c)
          \/ SpawnAllowed /\ AddThreadsSpawn(c)
    \/ \E c \in Callers :
          \/ \E t \in TaskIds : TaskWait(c, "wait", t)
          \/ \E t \in TaskIds : TaskWait(c, "wait_return", t)
    \/ \E w \in WorkerIds :
          \/ WorkerGet(w)
          \/ WorkerRun(w, BOOLEAN)
          \/ WorkerSignal(w)
          \/ WorkerAck(w)

SpecTask == Init /\ [][NextTask]_vars

\* Backpressure: a pool of one thread, a producer that submits more tasks
\* than the queue holds, payloads that return.
InitBP == InitPool(1)

NextBP ==
    \/ \E c \in Producers :
          \/ /\ Calls < max_threads * QueueFactor + ExtraTasksBP
             /\ AddTaskBegin(c)
          \/ AddTaskPut(c)
          \/ AddThreadsBegin(c)
          \/ SpawnAllowed /\ AddThreadsSpawn(c)
    \/ \E w \in WorkerIds :
          \/ WorkerGet(w)
          \/ WorkerRun(w, {TRUE})
          \/ WorkerSignal(w)
          \/ WorkerAck(w)

SpecBP == InitBP /\ [][NextBP]_vars

\* The pool engine without the bound on worker threads, for the liveness of
\* dispatch: worker threads run whenever they can, and a caller inside a call
\* goes on with it; nothing obliges a caller to start a call.
NextFair ==
    \/ \E c \in Callers :
          \/ Calls < MaxTasks /\ AddTaskBegin(c)
          \/ AddTaskPut(c)
          \/ AddThreadsBegin(c)
          \/ AddThreadsSpawn(c)
          \/ WaitCompletionJoin(c)
          \/ WaitCompletionReclaim(c)
          \/ ShutdownCheck(c)
          \/ ShutdownJoin(c)
          \/ ShutdownReclaim(c)
          \/ ShutdownSet(c)
          \/ ShutdownClear(c)
    \/ \E w \in WorkerIds :
          \/ WorkerGet(w)
          \/ WorkerRun(w, BOOLEAN)
          \/ WorkerSignal(w)
          \/ WorkerAck(w)
          \/ WorkerExit(w)

WorkerProgress ==
    \E w \in WorkerIds :
        \/ WorkerGet(w)
        \/ WorkerRun(w, BOOLEAN)
        \/ WorkerSignal(w)
        \/ WorkerAck(w)
        \/ WorkerExit(w)

CallProgress(c) ==
    \/ AddTaskPut(c)
    \/ AddThreadsBegin(c)
    \/ AddThreadsSpawn(c)
    \/ WaitCompletionReclaim(c)
    \/ ShutdownJoin(c)
    \/ ShutdownReclaim(c)
    \/ ShutdownSet(c)
    \/ ShutdownClear(c)

FairSpec ==
    /\ Init
    /\ [][NextFair]_vars
    /\ WF_vars(WorkerProgress)
    /\ \A c \in Callers : WF_vars(CallProgress(c))

\* The synchronous pool: callers submit payloads that return or raise, and
\* wait on the SerialTask objects they were given.
NextSerial ==
    \E c \in Callers :
        \/ /\ Len(serial) < MaxSerialTasks
           /\ \E ok \in BOOLEAN : SerialAddTask(c, ok)
        \/ \E s \in SerialIds : SerialWait(c, "serial.wait", s)
        \/ \E s \in SerialIds : SerialWait(c, "serial.wait_return", s)

SpecSerial == Init /\ [][NextSerial]_vars

\* Worker exit: a producer submits tasks while another thread calls
\* shutdown() and wait_completion(); payloads return; worker threads run
\* whenever they can, and a caller inside a call goes on with it.
NextExit ==
    \/ \E c \in Producers :
          \/ Calls < MaxTasksT /\ AddTaskBegin(c)
          \/ AddTaskPut(c)
          \/ AddThreadsBegin(c)
          \/ AddThreadsSpawn(c)
    \/ \E c \in Callers \ Producers :
          \/ WaitCompletionJoin(c)
          \/ WaitCompletionReclaim(c)
          \/ ShutdownCheck(c)
          \/ ShutdownJoin(c)
          \/ ShutdownReclaim(c)
          \/ ShutdownSet(c)
          \/ ShutdownClear(c)
    \/ \E w \in WorkerIds :
          \/ WorkerGet(w)
          \/ WorkerRun(w, {TRUE})
          \/ WorkerSignal(w)
          \/ WorkerAck(w)
          \/ WorkerExit(w)

FairSpecExit ==
    /\ Init
    /\ [][NextExit]_vars
    /\ WF_vars(WorkerProgress)
    /\ \A c \in Callers : WF_vars(CallProgress(c))

\* Failing payloads: a producer submits tasks whose payloads return or raise
\* while another thread calls wait_completion(); worker threads run whenever
\* they can, and a caller inside a call goes on with it.
NextFail ==
    \/ \E c \in Producers :
          \/ Calls < MaxTasksT /\ AddTaskBegin(c)
          \/ AddTaskPut(c)
          \/ AddThreadsBegin(c)
          \/ AddThreadsSpawn(c)
    \/ \E c \in Callers \ Producers :
          \/ WaitCompletionJoin(c)
          \/ WaitCompletionReclaim(c)
    \/ \E w \in WorkerIds :
          \/ WorkerGet(w)
          \/ WorkerRun(w, BOOLEAN)
          \/ WorkerSignal(w)
          \/ WorkerAck(w)

FairSpecFail ==
    /\ Init
    /\ [][NextFail]_vars
    /\ WF_vars(WorkerProgress)
    /\ \A c \in Callers : WF_vars(CallProgress(c))

\* The process-exit hook: threads that construct pools call
\* TryRegisterAtExit concurrently, each with the wait time of its pool.
NextAtExit ==
    \E c \in Callers :
        \/ /\ Len(requested) < MaxRegCalls
           /\ \E wait_time \in WaitTimes : AtExitCheck(c, wait_time)
        \/ AtExitAcquire(c)
        \/ AtExitRecheck(c)
        \/ AtExitRegister(c)
        \/ AtExitAssign(c)
        \/ AtExitRelease(c)

SpecAtExit == Init /\ [][NextAtExit]_vars

\* The progress report: on a pool of one thread a producer submits tasks, the
\* worker executes them, time passes, and every caller thread calls
\* TryReportActiveTaskCount.
NextReport ==
    \/ \E c \in Producers :
          \/ Calls < MaxTasksT /\ AddTaskBegin(c)
          \/ AddTaskPut(c)
          \/ AddThreadsBegin(c)
          \/ SpawnAllowed /\ AddThreadsSpawn(c)
    \/ \E c \in Callers :
          \/ ReportTest(c)
          \/ ReportPrint(c)
    \/ Tick
    \/ \E w \in WorkerIds :
          \/ WorkerGet(w)
          \/ WorkerRun(w, {TRUE})
          \/ WorkerSignal(w)
          \/ WorkerAck(w)

SpecReport == InitBP /\ [][NextReport]_vars

\* The facade: caller threads construct LocalMachinePool objects while a
\* producer uses the thread pool a facade would route to and its workers
\* execute the tasks.
NextFacade ==
    \/ \E c \in Callers :
          \E is_global \in BOOLEAN : FacadeNew(c, is_global)
    \/ \E c \in Producers :
          \/ Calls < MaxTasksT /\ AddTaskBegin(c)
          \/ AddTaskPut(c)
          \/ AddThreadsBegin(c)
          \/ SpawnAllowed /\ AddThreadsSpawn(c)
    \/ \E w \in WorkerIds :
          \/ WorkerGet(w)
          \/ WorkerRun(w, BOOLEAN)
          \/ WorkerSignal(w)
          \/ WorkerAck(w)

SpecFacade == Init /\ [][NextFacade]_vars

\* ================================================================== claims

\* A worker holds a task it took from the queue and has not acknowledged.
InFlight == \E w \in WorkerIds : worker[w].pc \in {"run", "signal", "ack"}

\* The step in which the join of wait_completion (called directly, or by
\* shutdown) returns to caller c.
JoinReturns(c) ==
    \/ caller[c].pc # "wc_reclaim" /\ caller'[c].pc = "wc_reclaim"
    \/ caller[c].pc = "sd_join" /\ caller'[c].pc = "sd_reclaim"

\* C1: the join of wait_completion() returns only when no worker holds an
\* unacknowledged task and every task put in the queue so far has its
\* completion signal set; a signal once set stays set, so every task submitted
\* before the call is completed when wait_completion() returns.
C1_WaitCompletion ==
    [][/\ \A c \in Callers :
             JoinReturns(c) =>
                 /\ ~InFlight
                 /\ \A t \in TaskIds : IsCompleted(t)
       /\ \A t \in TaskIds : task[t].completed => task'[t].completed]_vars

\* C1 witness: wait_completion's join has returned to a caller after two or
\* more tasks were submitted and completed.
C1_Witness ==
    \E c \in Callers :
        /\ caller[c].pc = "wc_reclaim"
        /\ Len(task) >= 2
        /\ \A t \in TaskIds : task[t].completed

\* C2: the live-worker list never holds more than max_workers entries.
C2_LiveWorkersBounded == Len(threads) <= max_threads

\* C3: an add_task call that starts after a shutdown() call has begun ends
\* with InvalidState at once; it never goes on to put its task in the queue.
C3_SubmitAfterShutdownFails ==
    [][\A c \in Callers :
          (/\ ShutdownBegun
           /\ IsIdle(c)
           /\ caller'[c].pc \in {"put", "InvalidState"}
           /\ caller'[c] # caller[c])
          => caller'[c].pc = "InvalidState"]_vars

\* C4: a shutdown() call made after an earlier shutdown() call has run to its
\* end returns at once (the caller is between calls again after the test of
\* the event) and leaves the pool's state as it was.
C4_ShutdownIdempotent ==
    [][\A c \in Callers :
          (/\ sdDone
           /\ IsIdle(c)
           /\ caller'[c].pc \in SdPcs \cup {"sd_noop"}
           /\ caller'[c] # caller[c])
          => /\ caller'[c].pc = "sd_noop"
             /\ UNCHANGED poolVars]_vars

\* C4 witness: a second shutdown() call has returned early after the first
\* call had run to its end.
C4_Witness ==
    \E c \in Callers :
        /\ caller[c].pc = "sd_noop"
        /\ caller[c].got = "after_shutdown"
        /\ shutdown_event
        /\ ~registered

\* C5: every task put in the queue is eventually taken from it by a worker.
C5_NoTaskLost ==
    \A t \in 1 .. MaxTasks :
        (t \in TaskIds) ~> (t \in TaskIds /\ task[t].dequeues > 0)

\* A worker holds task t between executing its payload and setting its
\* completion signal.
AboutToSignal(t) ==
    \E w \in WorkerIds : worker[w].entry = t /\ worker[w].pc = "signal"

\* Caller c's last call was op on a task, and it has returned or raised.
Waited(c, op) == IsIdle(c) /\ caller[c].op = op

Outcome(t) == <<task[t].returned_value, task[t].exception>>

\* C7: a task whose completion signal is set has exactly one of result and
\* failure set; no waiter has returned from wait()/wait_return() on a task
\* whose signal is unset; the outcome fields of a task change only in a step
\* of the one worker that dequeued it, before its signal is set, and never
\* once the signal is set.
C7_OutcomeWrittenOnce ==
    /\ [](/\ \A t \in TaskIds :
               task[t].completed =>
                   (task[t].returned_value # None) # (task[t].exception # None)
          /\ \A c \in Callers :
               caller[c].op # None => task[caller[c].arg].completed)
    /\ [][\A t \in TaskIds :
             Outcome(t)' # Outcome(t) =>
                 /\ ~task[t].completed
                 /\ Outcome(t) = <<None, None>>
                 /\ task[t].dequeues = 1
                 /\ \E w \in WorkerIds :
                       /\ worker[w].entry = t
                       /\ worker[w].pc = "run"
                       /\ worker'[w].pc # "run"]_vars

\* C7 witness: a waiter has returned from wait_return() with the result of a
\* completed task, and another from wait() on a failed one.
C7_Witness ==
    \E c1 \in Callers, c2 \in Callers :
        /\ Waited(c1, "wait_return")
        /\ caller[c1].pc = "returned"
        /\ caller[c1].got = Value
        /\ Waited(c2, "wait")
        /\ caller[c2].pc = "raised"

\* C8: tasks are dequeued in the order they were put; with max_workers = 1,
\* of two tasks A put before B, the payload of B has not run while the
\* completion signal of A is unset.
C8_FifoDispatch ==
    \A a \in TaskIds, b \in TaskIds :
        a < b =>
            /\ task[b].dequeues > 0 => task[a].dequeues > 0
            /\ (max_threads = 1 /\ task[b].runs > 0) => task[a].completed

\* C9: the queue never holds more than max_workers * 32 tasks; an add_task
\* call that found the queue at capacity has its put return only after a
\* worker has taken a task from the queue since the call began.
C9_Backpressure ==
    /\ Len(tasks) <= max_threads * QueueFactor
    /\ \A c \in Callers :
          (caller[c].pc \in {"scale", "spawn"} /\ caller[c].fullAt >= 0)
             => NumDequeued > caller[c].fullAt

\* C9 witness: the put of an add_task call that found the queue at capacity
\* has returned, and the queue is at capacity again.
C9_Witness ==
    \E c \in Callers :
        /\ caller[c].pc = "scale"
        /\ caller[c].fullAt >= 0
        /\ Len(tasks) = max_threads * QueueFactor

\* The tasks in the queue.
Queued == {tasks[i] : i \in 1 .. Len(tasks)}

\* C10: no task is taken from the queue more than once, no payload runs more
\* than once, and a task that was taken from the queue is not in the queue
\* (again), whether its payload returned or raised.
C10_OneAttempt ==
    \A t \in TaskIds :
        /\ task[t].dequeues <= 1
        /\ task[t].runs <= task[t].dequeues
        /\ task[t].dequeues > 0 => t \notin Queued
        /\ Cardinality({w \in WorkerIds : worker[w].entry = t}) <= 1

\* C10 witness: a task whose payload raised is completed after one run, and
\* the worker that ran it has gone on to take the next task.
C10_Witness ==
    \E t \in TaskIds, w \in WorkerIds :
        /\ task[t].exception = Error
        /\ task[t].completed
        /\ task[t].runs = 1
        /\ worker[w].entry # t
        /\ worker[w].entry # 0
        /\ Len(worker) = 1

\* Caller c's last call was wait() or wait_return() on a SerialTask.
SerialWaited(c) == caller[c].op \in {"serial.wait", "serial.wait_return"}

\* C11: a SerialTask polls as completed from its creation; wait() and
\* wait_return() on it are never blocked; wait_return() on a task whose
\* payload returned yields the result; wait() and wait_return() on a task
\* whose payload raised end by raising the failure, as they do on a task
\* executed by a worker.
C11_SerialTaskContract ==
    /\ \A s \in SerialIds : SerialIsCompleted(s) = TRUE
    /\ \A c \in Callers, s \in SerialIds :
          IsIdle(c) => /\ ENABLED SerialWait(c, "serial.wait", s)
                       /\ ENABLED SerialWait(c, "serial.wait_return", s)
    /\ \A c \in Callers :
          SerialWaited(c) =>
             IF serial[caller[c].arg].payload = "returned"
             THEN /\ caller[c].pc = "returned"
                  /\ caller[c].op = "serial.wait_return"
                        => caller[c].got = Value
             ELSE /\ caller[c].pc = "raised"
                  /\ caller[c].got = Error

\* The step in which caller c's reclamation pass (remove_finished_threads,
\* called by add_threads_if_needed, wait_completion or shutdown) runs.
ReclaimStep(c) ==
    \/ caller[c].pc = "scale" /\ ~shutdown_event /\ caller'[c].pc # "scale"
    \/ caller[c].pc = "wc_reclaim" /\ caller'[c].pc # "wc_reclaim"
    \/ caller[c].pc = "sd_reclaim" /\ caller'[c].pc = "sd_set"

\* The entries of a sequence.
Range(q) == {q[i] : i \in 1 .. Len(q)}

\* C12: after a reclamation pass the dead-thread queue is empty and no worker
\* that was on the queue when the pass began is still in the live-worker
\* list, whatever its position in the list.
C12_ReclaimRemovesAnnounced ==
    [][\A c \in Callers :
          ReclaimStep(c) =>
              /\ deadthreadqueue' = <<>>
              /\ Range(deadthreadqueue) \cap Range(threads') = {}]_vars

\* C13: a caller at a reclamation pass can always take it (the pass does not
\* block); a pass that finds the dead-thread queue empty leaves the
\* live-worker list as it is; a pass removes no more entries from the list
\* than there are announcements on the queue; and a worker that is not on the
\* queue stays in the list.
C13_ReclaimFrame ==
    /\ [](\A c \in Callers :
            /\ caller[c].pc = "wc_reclaim" => ENABLED WaitCompletionReclaim(c)
            /\ caller[c].pc = "sd_reclaim" => ENABLED ShutdownReclaim(c)
            /\ caller[c].pc = "scale" => ENABLED AddThreadsBegin(c))
    /\ [][\A c \in Callers :
             ReclaimStep(c) =>
                 /\ deadthreadqueue = <<>> => threads' = threads
                 /\ Len(threads) - Len(threads') <= Len(deadthreadqueue)
                 /\ \A w \in Range(threads) \ Range(deadthreadqueue) :
                       w \in Range(threads')]_vars

\* C13 witness: a reclamation pass has removed a worker that announced its
\* exit and has left the other workers in the live-worker list.
C13_Witness ==
    /\ \E w \in WorkerIds : worker[w].pc = "dead" /\ w \notin Range(threads)
    /\ threads # <<>>
    /\ deadthreadqueue = <<>>
    /\ ~sdDone

\* The step in which a worker thread is started.
Spawned == Len(worker') > Len(worker)

\* C14: a scaling pass begins with a reclamation pass; when the live-worker
\* list then holds max_workers entries the pass spawns nothing; otherwise the
\* number of workers it may spawn is min(max_workers, queue depth + 1) minus
\* the length of the list; the pass has always spawned fewer workers than
\* that when it spawns one more; a worker is spawned only by a scaling pass,
\* one at a time, and is appended to the live-worker list in the same step.
C14_WorkerScaling ==
    /\ [](\A c \in Callers :
             caller[c].pc = "spawn" =>
                 /\ 0 <= caller[c].created
                 /\ caller[c].created < caller[c].needed)
    /\ [][/\ \A c \in Callers :
                (caller[c].pc = "scale" /\ ~shutdown_event
                    /\ caller'[c] # caller[c]) =>
                   /\ threads' = RemoveFinished(threads, deadthreadqueue)
                   /\ deadthreadqueue' = <<>>
                   /\ ~Spawned
                   /\ Len(threads') = max_threads => caller'[c].pc # "spawn"
                   /\ caller'[c].pc = "spawn" =>
                         /\ caller'[c].created = 0
                         /\ caller'[c].needed =
                               Min(max_threads, Len(tasks) + 1) - Len(threads')
          /\ Spawned =>
                /\ Len(worker') = Len(worker) + 1
                /\ threads' = Append(threads, Len(worker'))
                /\ \E c \in Callers :
                      /\ caller[c].pc = "spawn"
                      /\ caller'[c].pc = "spawn" =>
                            /\ caller'[c].created = caller[c].created + 1
                            /\ caller'[c].needed = caller[c].needed
                      /\ caller'[c].pc # "spawn" =>
                            /\ IsIdle(c)'
                            /\ caller[c].created + 1 = caller[c].needed]_vars

\* C14 witness: a scaling pass that may spawn two workers has spawned the
\* first, which is in the live-worker list, and is about to spawn the second.
C14_Witness ==
    \E c \in Callers :
        /\ caller[c].pc = "spawn"
        /\ caller[c].needed = 2
        /\ caller[c].created = 1
        /\ threads # <<>>

\* C15: no worker thread is started in a state in which the shutdown flag is
\* set.
C15_NoSpawnAfterShutdown == [][Spawned => ~shutdown_event]_vars

\* The step in which worker w exits.
Exits(w) == worker[w].pc # "dead" /\ worker'[w].pc = "dead"

\* The number of times w is on the queue q.
Occurrences(q, w) == Cardinality({i \in 1 .. Len(q) : q[i] = w})

\* C16: a worker exits only from a dequeue attempt on an empty queue with the
\* shutdown flag set, and in that step puts itself on the dead-thread queue;
\* nothing else puts a worker on that queue, and a worker that exited stays
\* exited, so each worker is announced once; an idle worker stays polling in
\* every step taken with the flag unset; and under fair scheduling every
\* worker that exists while the flag is set eventually exits.
C16_CooperativeExit ==
    /\ [][/\ \A w \in WorkerIds :
                /\ Exits(w) =>
                      /\ worker[w].pc = "poll"
                      /\ tasks = <<>>
                      /\ shutdown_event
                      /\ deadthreadqueue' = Append(deadthreadqueue, w)
                /\ worker[w].pc = "dead" => worker'[w].pc = "dead"
                /\ Occurrences(deadthreadqueue', w)
                      > Occurrences(deadthreadqueue, w) => Exits(w)
                /\ (~shutdown_event /\ worker[w].pc = "poll" /\ tasks = <<>>)
                      => worker'[w].pc = "poll"
          /\ Len(worker') >= Len(worker)]_vars
    /\ \A w \in 1 .. (MaxTasksT * MaxThreads) :
          (shutdown_event /\ w \in WorkerIds)
             ~> (w \in WorkerIds /\ worker[w].pc = "dead")

\* C16 witness: after shutdown() set the flag, two workers have exited, one
\* of them is on the dead-thread queue, once, and the other has been
\* reclaimed.
C16_Witness ==
    /\ shutdown_event
    /\ \E v \in WorkerIds, w \in WorkerIds :
          /\ v # w
          /\ worker[v].pc = "dead"
          /\ worker[w].pc = "dead"
          /\ Occurrences(deadthreadqueue, v) = 0
          /\ Occurrences(deadthreadqueue, w) = 1

\* Worker w holds task t: it took it from the queue and has not yet marked
\* the queue slot as processed.
Holds(w, t) == worker[w].entry = t /\ worker[w].pc \in {"run", "signal", "ack"}

\* C17: the step that executes a payload leaves its worker on the way to the
\* signal with the outcome (the result, or the failure raised) kept on the
\* task; a worker that holds a task whose payload raised goes on to set the
\* signal, to mark the queue slot as processed and to poll the queue again;
\* the count of unprocessed slots is the number of tasks queued or held, so a
\* failed task that is no longer held does not keep the join of
\* wait_completion waiting; and under fair scheduling every task whose
\* payload raised is eventually signalled and let go by its worker.
C17_WorkerSurvivesFailure ==
    /\ [](/\ unfinished = Len(tasks)
                 + Cardinality({w \in WorkerIds : \E t \in TaskIds : Holds(w, t)})
          /\ \A w \in WorkerIds : worker[w].pc # "dead")
    /\ [][\A w \in WorkerIds :
             LET t == worker[w].entry
             IN  /\ (worker[w].pc = "run" /\ worker'[w] # worker[w]) =>
                       /\ worker'[w] = [pc |-> "signal", entry |-> t]
                       /\ Outcome(t)' \in {<<Value, None>>, <<None, Error>>}
                 /\ (worker[w].pc = "signal" /\ worker'[w] # worker[w]) =>
                       /\ worker'[w] = [pc |-> "ack", entry |-> t]
                       /\ task'[t].completed
                       /\ Outcome(t)' = Outcome(t)
                 /\ (worker[w].pc = "ack" /\ worker'[w] # worker[w]) =>
                       /\ worker'[w] = NewWorker
                       /\ unfinished' = unfinished - 1]_vars
    /\ \A t \in 1 .. MaxTasksT :
          (t \in TaskIds /\ task[t].exception # None)
             ~> (/\ t \in TaskIds
                 /\ task[t].completed
                 /\ task[t].exception = Error
                 /\ \A w \in WorkerIds : ~Holds(w, t))

\* C17 witness: the payload of the first task raised; the one worker of the
\* pool recorded the failure, signalled the task, marked its slot as
\* processed, and has gone on to take and execute the next task.
C17_Witness ==
    /\ Len(worker) = 1
    /\ Len(task) = 2
    /\ task[1].exception = Error
    /\ task[1].completed
    /\ Holds(1, 2)
    /\ task[2].runs = 1
    /\ unfinished = 1

\* The largest of a set of numbers, 0 for the empty set.
Max(S) == IF S = {} THEN 0 ELSE CHOOSE x \in S : \A y \in S : y <= x

\* No thread is inside a TryRegisterAtExit call.
AtExitQuiet == \A c \in Callers : caller[c].pc \notin AtExitPcs

\* C18: the registered wait time never decreases; when no call is under way
\* it is the largest wait time asked for so far; a hook is registered only
\* with a wait time greater than the registered one, so the hooks' wait times
\* rise strictly and no two are the same; and the lock is held only by a
\* thread inside a call, so it is free when no call is under way.
C18_AtExitRegistration ==
    /\ [](/\ AtExitQuiet =>
                 /\ AtExitRegisteredWaitTime = Max(Range(requested) \cup {0})
                 /\ AtExitLock = None
          /\ \A i \in 1 .. Len(atexit_hooks), j \in 1 .. Len(atexit_hooks) :
                 i < j => atexit_hooks[i] < atexit_hooks[j]
          /\ \A c \in Callers :
                 (AtExitLock = c) <=> (caller[c].pc \in AtExitLockedPcs))
    /\ [][/\ AtExitRegisteredWaitTime' >= AtExitRegisteredWaitTime
          /\ atexit_hooks' # atexit_hooks =>
                \E wait_time \in WaitTimes :
                   /\ atexit_hooks' = Append(atexit_hooks, wait_time)
                   /\ wait_time > AtExitRegisteredWaitTime]_vars

\* C18 witness: two calls have each registered a hook, and a third call that
\* asked for no more than the registered wait time has returned without
\* registering; no call is under way and the lock is free.
C18_Witness ==
    /\ AtExitQuiet
    /\ Len(atexit_hooks) = 2
    /\ Len(requested) = 3
    /\ requested[3] <= atexit_hooks[2]
    /\ AtExitRegisteredWaitTime = atexit_hooks[2]
    /\ AtExitLock = None

\* The step in which a report is printed.
Printed == Len(printed') > Len(printed)

\* C19: a report is printed only in a state in which the queue holds two or
\* more tasks, and only when job_report_interval or more has passed since the
\* report before it; a step that prints nothing leaves the last-report time
\* and the last-reported count as they were.
C19_ReportThrottled ==
    [][/\ Printed =>
             /\ NumActiveTasks >= 2
             /\ printed # <<>> =>
                   printed'[Len(printed')].time - printed[Len(printed)].time
                      >= ReportInterval
       /\ ~Printed =>
             UNCHANGED <<last_job_report_time, last_num_active_tasks>>]_vars

\* C20: a thread that constructs a LocalMachinePool is given a facade, and
\* the facade holds neither the thread-backed nor the process-backed pool
\* until a first add_task or add_process acquires it.
C20_FacadeLazy ==
    \A c \in Callers :
        (IsIdle(c) /\ caller[c].op = "LocalMachinePool") =>
            /\ caller[c].pc = "returned"
            /\ caller[c].arg \in DOMAIN facades
            /\ facades[caller[c].arg].mtpool = None
            /\ facades[caller[c].arg].ppool = None

====
